---- MODULE Spec2Model ----
(***************************************************************************)
(* A model of semantic-release's command (cmd/semantic-release/main.go)    *)
(* and of its GitHub repository provider (pkg/semrel/github.go).           *)
(*                                                                         *)
(* Strings are sequences of one-character strings, so that the string      *)
(* operations of the code (Contains, TrimPrefix, Trim, Split, ToLower, the *)
(* regular expressions) are computed character by character.               *)
(***************************************************************************)
EXTENDS Integers, Sequences, FiniteSets, TLC

VARIABLES
    pc,        \* where cliHandler is; "exit" after os.Exit, "done" after return nil
    conf,      \* the configuration read by config.NewConfig
    ci,        \* what the CI environment reports: [branch, sha]
    remote,    \* the repository at the provider: defaultBranch, tagPages, history, calls
    local,     \* the locals of cliHandler
    loop,      \* the locals of GitHubRepository.GetLatestRelease's page loop
    files,     \* the files written by ioutil.WriteFile, in order
    exit       \* [code, err] of the os.Exit taken, code 0 while running

vars == <<pc, conf, ci, remote, local, loop, files, exit>>

----------------------------------------------------------------------------
(* Bounds of the model. *)

\* the longest commit history and the most tag pages the main run sees
MaxCommits == 2
MaxPages == 2
\* the longest history the listing of GetCommits is tried on, beyond PerPage
MaxHistory == 101

\* PerPage of github.ListOptions, in GetCommits and in GetLatestRelease
PerPage == 100

----------------------------------------------------------------------------
(* Strings. *)

Lower == <<"a","b","c","d","e","f","g","h","i","j","k","l","m",
           "n","o","p","q","r","s","t","u","v","w","x","y","z">>
Upper == <<"A","B","C","D","E","F","G","H","I","J","K","L","M",
           "N","O","P","Q","R","S","T","U","V","W","X","Y","Z">>
Digit == <<"0","1","2","3","4","5","6","7","8","9">>

Range(s) == {s[i] : i \in 1..Len(s)}

\* \w of the regular expressions
IsWordChar(c) == c \in Range(Lower) \cup Range(Upper) \cup Range(Digit) \cup {"_"}

IsDigit(c) == c \in Range(Digit)

DigitValue(c) == (CHOOSE i \in 1..10 : Digit[i] = c) - 1

ToLowerChar(c) ==
    IF c \in Range(Upper) THEN Lower[CHOOSE i \in 1..26 : Upper[i] = c] ELSE c

\* strings.ToLower
ToLower(s) == [i \in 1..Len(s) |-> ToLowerChar(s[i])]

\* strings.HasPrefix
HasPrefix(s, p) == Len(p) <= Len(s) /\ SubSeq(s, 1, Len(p)) = p

\* strings.Contains
Contains(s, sub) ==
    \E i \in 0..(Len(s) - Len(sub)) : SubSeq(s, i + 1, i + Len(sub)) = sub

\* strings.TrimPrefix
TrimPrefix(s, p) == IF HasPrefix(s, p) THEN SubSeq(s, Len(p) + 1, Len(s)) ELSE s

\* strings.Trim(s, cutset): drops every leading and trailing character of s
\* that occurs in cutset
Trim(s, cutset) ==
    LET keep == {i \in 1..Len(s) : s[i] \notin Range(cutset)}
    IN  IF keep = {} THEN <<>>
        ELSE SubSeq(s, CHOOSE i \in keep : \A j \in keep : i <= j,
                       CHOOSE i \in keep : \A j \in keep : j <= i)

\* strings.TrimSpace
TrimSpace(s) == Trim(s, <<" ", "\n">>)

\* the index of the first c in s, 0 when there is none
IndexOf(s, c) ==
    IF \E i \in 1..Len(s) : s[i] = c
    THEN CHOOSE i \in 1..Len(s) : s[i] = c /\ \A j \in 1..(i - 1) : s[j] # c
    ELSE 0

RECURSIVE Split(_, _)
\* strings.Split(s, sep) for a one-character sep
Split(s, sep) ==
    LET i == IndexOf(s, sep)
    IN  IF i = 0 THEN <<s>>
        ELSE <<SubSeq(s, 1, i - 1)>> \o Split(SubSeq(s, i + 1, Len(s)), sep)

RECURSIVE ParseNat(_)
\* the value of a string of digits
ParseNat(s) ==
    IF Len(s) = 0 THEN 0
    ELSE 10 * ParseNat(SubSeq(s, 1, Len(s) - 1)) + DigitValue(s[Len(s)])

RECURSIVE Itoa(_)
\* the decimal digits of n
Itoa(n) == IF n < 10 THEN <<Digit[n + 1]>> ELSE Itoa(n \div 10) \o <<Digit[(n % 10) + 1]>>

RECURSIVE Concat(_)
\* the concatenation of a sequence of strings
Concat(ss) == IF Len(ss) = 0 THEN <<>> ELSE Head(ss) \o Concat(Tail(ss))

\* the string constants of the code and of the inputs
S_master == <<"m","a","s","t","e","r">>
S_main == <<"m","a","i","n">>
S_star == <<"*">>
S_pkgA == <<"p","k","g","A">>
S_pkgB == <<"p","k","g","B">>
S_release == <<"-","r","e","l","e","a","s","e","-">>
S_branch_v == <<"-","b","r","a","n","c","h","-","v">>
S_refs_tags == <<"r","e","f","s","/","t","a","g","s","/">>
S_refs_heads == <<"r","e","f","s","/","h","e","a","d","s","/">>
S_feat == <<"f","e","a","t">>
S_fix == <<"f","i","x">>
S_chore == <<"c","h","o","r","e">>
S_BREAKING == <<"B","R","E","A","K","I","N","G"," ","C","H","A","N","G","E">>

----------------------------------------------------------------------------
(* Versions (github.com/Masterminds/semver, as the code uses it). *)

Version(ma, mi, pa, pre) == [major |-> ma, minor |-> mi, patch |-> pa, pre |-> pre]

\* &semver.Version{}
ZeroVersion == Version(0, 0, 0, <<>>)

IsDigits(s) == Len(s) > 0 /\ \A i \in 1..Len(s) : IsDigit(s[i])

\* semver.NewVersion: an optional "v", one to three dot-separated numbers and
\* an optional "-" pre-release; [ok |-> FALSE] stands for the error
NewVersion(tag) ==
    LET s == IF HasPrefix(tag, <<"v">>) THEN Tail(tag) ELSE tag
        d == IndexOf(s, "-")
        core == IF d = 0 THEN s ELSE SubSeq(s, 1, d - 1)
        pre == IF d = 0 THEN <<>> ELSE SubSeq(s, d + 1, Len(s))
        parts == Split(core, ".")
        ok == /\ Len(parts) \in 1..3
              /\ \A i \in 1..Len(parts) : IsDigits(parts[i])
              /\ d # 0 => /\ Len(pre) > 0
                          /\ \A i \in 1..Len(pre) : IsWordChar(pre[i]) \/ pre[i] \in {".", "-"}
        num(i) == IF i <= Len(parts) THEN ParseNat(parts[i]) ELSE 0
    IN  IF ok THEN [ok |-> TRUE, v |-> Version(num(1), num(2), num(3), pre)]
        ELSE [ok |-> FALSE, v |-> ZeroVersion]

\* Version.String
VersionString(v) ==
    Itoa(v.major) \o <<".">> \o Itoa(v.minor) \o <<".">> \o Itoa(v.patch)
    \o (IF v.pre = <<>> THEN <<>> ELSE <<"-">> \o v.pre)

\* Version.Prerelease
Prerelease(v) == v.pre

\* Version.IncPatch: a pre-release is dropped instead of the patch incremented
IncPatch(v) ==
    IF v.pre # <<>> THEN [v EXCEPT !.pre = <<>>]
    ELSE [v EXCEPT !.patch = v.patch + 1]

\* Version.IncMinor
IncMinor(v) == Version(v.major, v.minor + 1, 0, <<>>)

\* Version.IncMajor
IncMajor(v) == Version(v.major + 1, 0, 0, <<>>)

\* the number of a pre-release's second identifier ("beta.2" is 2), 0 without one
PreNumber(pre) ==
    LET ids == Split(pre, ".")
    IN  IF Len(ids) > 1 /\ IsDigits(ids[2]) THEN ParseNat(ids[2]) ELSE 0

\* semantic-versioning precedence: the numeric triple, then a pre-release
\* below its release, then the pre-release's number
VersionLess(a, b) ==
    \/ a.major < b.major
    \/ a.major = b.major /\ a.minor < b.minor
    \/ a.major = b.major /\ a.minor = b.minor /\ a.patch < b.patch
    \/ /\ a.major = b.major /\ a.minor = b.minor /\ a.patch = b.patch
       /\ \/ a.pre # <<>> /\ b.pre = <<>>
          \/ a.pre # <<>> /\ b.pre # <<>> /\ PreNumber(a.pre) < PreNumber(b.pre)

----------------------------------------------------------------------------
(* The Commit Classifier. *)

NoChange == [Major |-> FALSE, Minor |-> FALSE, Patch |-> FALSE]

\* commitPattern.FindAllStringSubmatch(line, -1): the subject line must read
\* <type>(<scope>): <subject>, the scope being optional, with an optional "!"
\* before the colon. found[0][1..3] are type, scope and message.
commitPattern(line) ==
    LET words == {n \in 0..Len(line) : \A i \in 1..n : IsWordChar(line[i])}
        wordEnd == CHOOSE n \in words : \A m \in words : m <= n
        rest == SubSeq(line, wordEnd + 1, Len(line))
        After(j) == SubSeq(rest, j + 1, Len(rest))
        Colon(t) == HasPrefix(t, <<":", " ">>)
        BangColon(t) == HasPrefix(t, <<"!", ":", " ">>)
        MessageOf(t) == SubSeq(t, (IF Colon(t) THEN 3 ELSE 4), Len(t))
        closes == {j \in 2..Len(rest) :
                     /\ rest[1] = "(" /\ rest[j] = ")"
                     /\ Colon(After(j)) \/ BangColon(After(j))}
        last == CHOOSE j \in closes : \A k \in closes : k <= j
        none == [found |-> FALSE, type |-> <<>>, scope |-> <<>>, message |-> <<>>,
                 bang |-> FALSE]
    IN  IF closes # {}
        THEN [found |-> TRUE, type |-> SubSeq(line, 1, wordEnd),
              scope |-> SubSeq(rest, 2, last - 1),
              message |-> MessageOf(After(last)), bang |-> BangColon(After(last))]
        ELSE IF Colon(rest) \/ BangColon(rest)
        THEN [found |-> TRUE, type |-> SubSeq(line, 1, wordEnd), scope |-> <<>>,
              message |-> MessageOf(rest), bang |-> BangColon(rest)]
        ELSE none

\* breakingPattern.MatchString(message): the footer token anywhere in the
\* message, or the inline "!" after the type of the subject line
breakingPattern(message) ==
    \/ Contains(message, S_BREAKING)
    \/ commitPattern(Split(message, "\n")[1]).bang

\* parseGithubCommit keeping the type as written
parseGithubCommit_NoLower(commit, pkg) ==
    LET raw == Split(commit.Message, "\n")
        found == commitPattern(raw[1])
        c == [SHA |-> commit.SHA, Raw |-> raw, Type |-> <<>>, Scope |-> <<>>,
              Message |-> <<>>, Change |-> NoChange]
        type == found.type
    IN  IF ~found.found THEN c
        ELSE IF pkg # <<>> /\ pkg = found.scope
        THEN [c EXCEPT !.Type = type, !.Scope = found.scope,
                       !.Message = found.message,
                       !.Change = [Major |-> breakingPattern(commit.Message),
                                   Minor |-> type = S_feat,
                                   Patch |-> type = S_fix]]
        ELSE c

\* parseGithubCommit looking for the breaking-change marker in the subject
\* line only
parseGithubCommit_SubjectOnly(commit, pkg) ==
    LET raw == Split(commit.Message, "\n")
        found == commitPattern(raw[1])
        c == [SHA |-> commit.SHA, Raw |-> raw, Type |-> <<>>, Scope |-> <<>>,
              Message |-> <<>>, Change |-> NoChange]
        type == ToLower(found.type)
    IN  IF ~found.found THEN c
        ELSE IF pkg # <<>> /\ pkg = found.scope
        THEN [c EXCEPT !.Type = type, !.Scope = found.scope,
                       !.Message = found.message,
                       !.Change = [Major |-> breakingPattern(raw[1]),
                                   Minor |-> type = S_feat,
                                   Patch |-> type = S_fix]]
        ELSE c

\* parseGithubCommit(commit, pkg), commit being [SHA, Message]
parseGithubCommit(commit, pkg) ==
    LET raw == Split(commit.Message, "\n")
        found == commitPattern(raw[1])
        c == [SHA |-> commit.SHA, Raw |-> raw, Type |-> <<>>, Scope |-> <<>>,
              Message |-> <<>>, Change |-> NoChange]
        type == ToLower(found.type)
    IN  IF ~found.found THEN c
        ELSE IF pkg # <<>> /\ pkg = found.scope
        THEN [c EXCEPT !.Type = type, !.Scope = found.scope,
                       !.Message = found.message,
                       !.Change = [Major |-> breakingPattern(commit.Message),
                                   Minor |-> type = S_feat,
                                   Patch |-> type = S_fix]]
        ELSE c

Min(a, b) == IF a <= b THEN a ELSE b

\* Repositories.ListCommits with ListOptions{PerPage: 100}: one call, which
\* answers the first page of the history, newest first
ListCommits(history) == SubSeq(history, 1, Min(Len(history), PerPage))

\* GitHubRepository.GetCommits, once ListCommits has answered without error
GetCommits(history, pkg) ==
    LET commits == ListCommits(history)
    IN  [i \in 1..Len(commits) |-> parseGithubCommit(commits[i], pkg)]

----------------------------------------------------------------------------
(* The Version Resolver, the Release Selector and the Changelog Generator. *)

Release(sha, v) == [SHA |-> sha, Version |-> v]

\* &Release{"", &semver.Version{}}
ZeroRelease == Release(<<>>, ZeroVersion)

Some(v) == [some |-> TRUE, v |-> v]

\* a nil *semver.Version
Nil == [some |-> FALSE, v |-> ZeroVersion]

RECURSIVE CalculateChange(_)
\* the Change flags of the commits, folded with OR
CalculateChange(commits) ==
    IF Len(commits) = 0 THEN NoChange
    ELSE LET c == Head(commits).Change
             r == CalculateChange(Tail(commits))
         IN  [Major |-> c.Major \/ r.Major, Minor |-> c.Minor \/ r.Minor,
              Patch |-> c.Patch \/ r.Patch]

\* the next pre-release of a maintained pre-release line: "beta" gives
\* "beta.1", "beta.1" gives "beta.2"
IncPrerelease(v) ==
    LET ids == Split(v.pre, ".")
    IN  [v EXCEPT !.pre = ids[1] \o <<".">> \o Itoa(PreNumber(v.pre) + 1)]

\* semrel.GetNewVersion(conf, commits, release): major before minor before
\* patch, nil when no commit qualifies
GetNewVersion(cf, commits, release) ==
    LET change == CalculateChange(commits)
        v == release.Version
    IN  IF ~(change.Major \/ change.Minor \/ change.Patch) THEN Nil
        ELSE IF Contains(cf.MaintainedVersion, <<"-">>) /\ v.pre # <<>>
        THEN Some(IncPrerelease(v))
        ELSE IF change.Major THEN Some(IncMajor(v))
        ELSE IF change.Minor THEN Some(IncMinor(v))
        ELSE Some(IncPatch(v))

\* whether version v satisfies the maintained-version string: numbers must
\* agree, "x" and a missing number agree with anything, and a pre-release is
\* asked for by a pre-release of the string
Satisfies(v, vrange) ==
    LET d == IndexOf(vrange, "-")
        core == IF d = 0 THEN vrange ELSE SubSeq(vrange, 1, d - 1)
        pre == IF d = 0 THEN <<>> ELSE SubSeq(vrange, d + 1, Len(vrange))
        parts == Split(core, ".")
        agrees(i, n) == i > Len(parts) \/ ~IsDigits(parts[i]) \/ ParseNat(parts[i]) = n
    IN  /\ agrees(1, v.major) /\ agrees(2, v.minor) /\ agrees(3, v.patch)
        /\ IF pre = <<>> THEN v.pre = <<>> ELSE HasPrefix(v.pre, pre)

RECURSIVE SelectReleases(_, _, _)
\* the releases of the pool, in order, that satisfy the maintained version
\* and whose version starts with the hotfix line
SelectReleases(releases, vrange, lastVersionHotfix) ==
    IF Len(releases) = 0 THEN <<>>
    ELSE LET r == Head(releases)
             ok == /\ vrange # <<>> => Satisfies(r.Version, vrange)
                   /\ lastVersionHotfix # <<>> =>
                          HasPrefix(VersionString(r.Version), lastVersionHotfix)
         IN  (IF ok THEN <<r>> ELSE <<>>)
             \o SelectReleases(Tail(releases), vrange, lastVersionHotfix)

\* Releases.GetLatestRelease(vrange, lastVersionHotfix): the greatest version
\* of the restricted pool, the first seen among equals, and the zero Release
\* of an empty pool
RankReleases(releases, vrange, lastVersionHotfix) ==
    LET pool == SelectReleases(releases, vrange, lastVersionHotfix)
        best == CHOOSE i \in 1..Len(pool) :
                    /\ \A j \in 1..Len(pool) : ~VersionLess(pool[i].Version, pool[j].Version)
                    /\ \A j \in 1..(i - 1) : VersionLess(pool[j].Version, pool[i].Version)
    IN  IF Len(pool) = 0 THEN ZeroRelease ELSE pool[best]

RECURSIVE ChangelogEntries(_)
\* one line per classified commit, in the order given: type, subject, SHA
ChangelogEntries(commits) ==
    IF Len(commits) = 0 THEN <<>>
    ELSE LET c == Head(commits)
         IN  (IF c.Type = <<>> THEN <<>>
              ELSE <<"\n", "*", " ">> \o c.Type \o <<":", " ">> \o c.Message
                   \o <<" ", "(">> \o c.SHA \o <<")">>)
             \o ChangelogEntries(Tail(commits))

\* semrel.GetChangelog(commits, release, newVer)
GetChangelog(commits, release, newVer) ==
    <<"#", "#", " ">> \o VersionString(newVer) \o ChangelogEntries(commits)

----------------------------------------------------------------------------
(* GitHubRepository.GetLatestRelease: what one page of refs contributes. *)

\* the tag of a ref after the prefixes are stripped (lines 282-285)
TagOf(r, pkg_name) ==
    LET tag == TrimPrefix(r.Ref, S_refs_tags)
    IN  IF Contains(tag, pkg_name \o S_release)
        THEN TrimPrefix(tag, pkg_name \o S_release)
        ELSE tag

\* re.MatchString(tag) for the anchored regular expression "^" + match of a
\* literal match; <<>> stands for the nil regular expression
MatchString(re, tag) == HasPrefix(tag, re)

\* whether a ref survives the three checks of lines 286-296
Survives(r, re, pkg_name) ==
    /\ ~(re # <<>> /\ ~MatchString(re, TagOf(r, pkg_name)))
    /\ r.Type = "commit"
    /\ NewVersion(TagOf(r, pkg_name)).ok

RECURSIVE PageReleases(_, _, _)
\* the releases the loop body appends for the refs of one page (lines 281-298)
PageReleases(refs, re, pkg_name) ==
    IF Len(refs) = 0 THEN <<>>
    ELSE LET r == Head(refs)
         IN  (IF Survives(r, re, pkg_name)
              THEN <<Release(r.SHA, NewVersion(TagOf(r, pkg_name)).v)>>
              ELSE <<>>)
             \o PageReleases(Tail(refs), re, pkg_name)

----------------------------------------------------------------------------
(* The inputs. *)

S_hotfix == S_pkgA \o S_branch_v \o <<"1", ".", "0">>

Sha(prefix, i) == <<prefix>> \o Itoa(i)

\* a commit message <type>(<scope>): <subject>
Subject(type, scope, subject) == type \o <<"(">> \o scope \o <<")", ":", " ">> \o subject

\* the messages of the histories of a whole run
RunMessages == {Subject(S_chore, S_pkgA, <<"x">>), Subject(S_feat, S_pkgA, <<"y">>)}

RECURSIVE SeqsUpTo(_, _)
\* the sequences over S of length at most n
SeqsUpTo(S, n) ==
    IF n = 0 THEN {<<>>}
    ELSE LET shorter == SeqsUpTo(S, n - 1)
         IN  shorter \cup {<<x>> \o q : x \in S, q \in {r \in shorter : Len(r) = n - 1}}

\* a history, newest first, of the given messages: commit i has SHA "c<i>"
History(messages) ==
    [i \in 1..Len(messages) |-> [SHA |-> Sha("c", i), Message |-> messages[i]]]

Ref(tag, type, sha) == [Ref |-> S_refs_tags \o tag, Type |-> type, SHA |-> sha]

R_101 == Ref(S_pkgA \o S_release \o <<"v","1",".","0",".","1">>, "commit", Sha("t", 1))
R_100beta == Ref(S_pkgA \o S_release \o <<"v","1",".","0",".","0","-","b","e","t","a">>,
                 "commit", Sha("t", 2))
R_120 == Ref(S_pkgA \o S_release \o <<"v","1",".","2",".","0">>, "commit", Sha("t", 3))
R_pkgB == Ref(S_pkgB \o S_release \o <<"v","3",".","0",".","0">>, "commit", Sha("t", 4))
R_annotated == Ref(<<"v","2",".","0",".","0">>, "tag", Sha("t", 5))

\* the tags of the repository, by page, in the runs of the whole command
RunTagPages == {<<>>, <<<<R_101>>>>, <<<<R_100beta, R_pkgB>>, <<R_120, R_annotated>>>>}

\* the pages the page loop is tried on
PagePool == {<<>>, <<R_101>>, <<R_100beta, R_pkgB>>, <<R_120, R_annotated>>}

Branches == {S_master, S_main}

Confs ==
    [CurrentBranch : {<<>>, S_master, S_hotfix},
     BaseBranch : {S_master},
     MaintainedVersion : {<<>>, <<"1", ".", "x">>, <<"1",".","0",".","0","-","b","e","t","a">>},
     Pkgname : {S_pkgA},
     CommitHash : {<<>>, Sha("c", 2), Sha("z", 9)}]

\* the locals of cliHandler before their assignment
Local0 ==
    [defaultBranch |-> <<>>, currentBranch |-> <<>>, currentSha |-> <<>>,
     matchRegex |-> <<>>, lastVersionHotfix |-> <<>>, release |-> ZeroRelease,
     commits |-> <<>>, newVer |-> Nil, changelog |-> <<>>, SHA |-> <<>>,
     foundCommit |-> FALSE]

\* the locals of GetLatestRelease: allReleases and opts.Page, with the number
\* of pages fetched, whether the ranking of line 305 ran, and whether the call
\* has returned a release (returned) or an error (failed)
Loop0 == [allReleases |-> <<>>, page |-> 0, fetched |-> 0, ranked |-> FALSE,
          returned |-> FALSE, failed |-> FALSE]

Remote(defaultBranch, tagPages, history) ==
    [defaultBranch |-> defaultBranch, tagPages |-> tagPages, history |-> history,
     calls |-> <<>>]

Init ==
    /\ pc = "NewConfig"
    /\ conf \in Confs
    /\ ci \in [branch : {<<>>, S_master, S_main}, sha : {Sha("c", 1)}]
    /\ \E d \in Branches, t \in RunTagPages, m \in SeqsUpTo(RunMessages, MaxCommits) :
           remote = Remote(d, t, History(m))
    /\ local = Local0
    /\ loop = Loop0
    /\ files = <<>>
    /\ exit = [code |-> 0, err |-> ""]

----------------------------------------------------------------------------
(* cliHandler, step by step. *)

\* exitIfError(err, code) with a non-nil err: os.Exit
Exit(code, err) ==
    /\ pc' = "exit"
    /\ exit' = [code |-> code, err |-> err]

Goto(label) ==
    /\ pc' = label
    /\ UNCHANGED exit

\* lines 55-56
NewConfig ==
    /\ pc = "NewConfig"
    /\ \E ok \in BOOLEAN : IF ok THEN Goto("NewRepository") ELSE Exit(1, "config")
    /\ UNCHANGED <<conf, ci, remote, local, loop, files>>

\* lines 58-71, for the GitHub provider: NewGitHubRepository rejects a slug
\* without "/"
NewRepository ==
    /\ pc = "NewRepository"
    /\ \E slugHasSlash \in BOOLEAN :
           IF slugHasSlash THEN Goto("GetInfo") ELSE Exit(1, "invalid slug")
    /\ UNCHANGED <<conf, ci, remote, local, loop, files>>

\* lines 73-80 and GitHubRepository.GetInfo: the provider's default branch,
\* unless the environment variable branch_name is set
GetInfo ==
    /\ pc = "GetInfo"
    /\ \E ok \in BOOLEAN, branch_name \in {<<>>, S_master} :
           IF ~ok THEN Exit(1, "provider") /\ UNCHANGED local
           ELSE /\ local' = [local EXCEPT !.defaultBranch =
                                 IF branch_name # <<>> THEN branch_name
                                 ELSE remote.defaultBranch]
                /\ Goto("ResolveBranch")
    /\ UNCHANGED <<conf, ci, remote, loop, files>>

\* lines 82-104
ResolveBranch ==
    /\ pc = "ResolveBranch"
    /\ LET currentBranch == IF conf.CurrentBranch # <<>> THEN conf.CurrentBranch
                            ELSE ci.branch
           currentSha == IF conf.CurrentBranch # <<>> THEN conf.CurrentBranch
                         ELSE ci.sha
       IN  IF currentBranch = <<>>
           THEN Exit(1, "current branch not found") /\ UNCHANGED local
           ELSE IF conf.MaintainedVersion # <<>> /\ currentBranch = local.defaultBranch
           THEN /\ Exit(1, "maintained version not allowed on default branch")
                /\ local' = [local EXCEPT !.currentBranch = currentBranch]
           ELSE /\ local' = [local EXCEPT
                       !.currentBranch = currentBranch,
                       !.defaultBranch = IF conf.MaintainedVersion # <<>> THEN S_star
                                         ELSE local.defaultBranch,
                       !.currentSha = currentSha]
                /\ Goto("RunCondition")
    /\ UNCHANGED <<conf, ci, remote, loop, files>>

\* lines 106-114: conf.Noci is read here only, and the CI condition is the
\* CI provider's
RunCondition ==
    /\ pc = "RunCondition"
    /\ \E noci \in BOOLEAN, conditionOk \in BOOLEAN :
           IF ~noci /\ ~conditionOk THEN Exit(66, "ci condition")
           ELSE Goto("GetLatestRelease")
    /\ UNCHANGED <<conf, ci, remote, local, loop, files>>

\* lines 116-126 and 271-272: conf.Match is read here only
GetLatestReleaseStart ==
    /\ pc = "GetLatestRelease"
    /\ \E Match \in {<<>>, <<" ", "v", "1">>} :
           local' = [local EXCEPT
               !.matchRegex = TrimSpace(Match),
               !.lastVersionHotfix =
                   IF conf.CurrentBranch # conf.BaseBranch
                   THEN Trim(conf.CurrentBranch, conf.Pkgname \o S_branch_v)
                   ELSE <<>>]
    /\ loop' = Loop0
    /\ Goto("ListRefs")
    /\ UNCHANGED <<conf, ci, remote, files>>

\* CheckRelease without the check of lines 131-133
CheckRelease_NoPrereleaseCheck(release) ==
    /\ local' = [local EXCEPT !.release = release]
    /\ Goto("GetCommits")

\* lines 128-133, with the release GetLatestRelease has returned
CheckRelease(release) ==
    /\ local' = [local EXCEPT !.release = release]
    /\ IF /\ Contains(conf.MaintainedVersion, <<"-">>)
          /\ Prerelease(release.Version) = <<>>
       THEN Exit(1, "no pre-release for this version possible")
       ELSE Goto("GetCommits")

\* a page loop that ends after its first page
LoopContinues_FirstPageOnly(NextPage) == FALSE

\* whether the page loop goes on after a page whose response names NextPage
\* (lines 299-302)
LoopContinues(NextPage) == NextPage # 0

\* lines 273-303, one turn of the page loop: Git.ListRefs answers 404 for a
\* repository without tags, an error, or the page asked for
ListRefs ==
    /\ pc = "ListRefs"
    /\ LET p == IF loop.page = 0 THEN 1 ELSE loop.page
           NextPage == IF p < Len(remote.tagPages) THEN p + 1 ELSE 0
       IN  \E ok \in BOOLEAN :
             IF ~ok
             THEN /\ Exit(1, "provider")
                  /\ loop' = [loop EXCEPT !.failed = TRUE]
                  /\ UNCHANGED local
             ELSE IF remote.tagPages = <<>>
             THEN /\ loop' = [loop EXCEPT !.returned = TRUE]
                  /\ CheckRelease(ZeroRelease)
             ELSE /\ loop' = [loop EXCEPT
                          !.allReleases = @ \o PageReleases(remote.tagPages[p],
                                                            local.matchRegex, conf.Pkgname),
                          !.fetched = p,
                          !.page = NextPage]
                  /\ IF LoopContinues(NextPage) THEN Goto("ListRefs") ELSE Goto("Rank")
                  /\ UNCHANGED local
    /\ UNCHANGED <<conf, ci, remote, files>>

\* line 305, then lines 128-133
Rank ==
    /\ pc = "Rank"
    /\ loop' = [loop EXCEPT !.ranked = TRUE, !.returned = TRUE]
    /\ CheckRelease(RankReleases(loop.allReleases, conf.MaintainedVersion,
                                 local.lastVersionHotfix))
    /\ UNCHANGED <<conf, ci, remote, files>>

\* lines 135-137 and GitHubRepository.GetCommits
GetCommitsStep ==
    /\ pc = "GetCommits"
    /\ \E ok \in BOOLEAN :
           IF ~ok THEN Exit(1, "provider") /\ UNCHANGED local
           ELSE /\ local' = [local EXCEPT
                        !.commits = GetCommits(remote.history, conf.Pkgname)]
                /\ Goto("CalculateVersion")
    /\ UNCHANGED <<conf, ci, remote, loop, files>>

\* whether the fallback of lines 142-149 takes the patch branch
FallbackIsPatch == conf.CurrentBranch # conf.BaseBranch

\* lines 139-154: conf.Dry is read here only
CalculateVersion ==
    /\ pc = "CalculateVersion"
    /\ LET newVer == GetNewVersion(conf, local.commits, local.release)
           fallback == IF FallbackIsPatch THEN IncPatch(local.release.Version)
                       ELSE IncMinor(local.release.Version)
       IN  local' = [local EXCEPT !.newVer = IF newVer = Nil THEN Some(fallback)
                                             ELSE newVer]
    /\ \E Dry \in BOOLEAN :
           IF Dry THEN Exit(65, "DRY RUN: no release was created")
           ELSE Goto("Changelog")
    /\ UNCHANGED <<conf, ci, remote, loop, files>>

\* lines 156-160: conf.Changelog is read here only
Changelog ==
    /\ pc = "Changelog"
    /\ LET changelog == GetChangelog(local.commits, local.release, local.newVer.v)
       IN  /\ local' = [local EXCEPT !.changelog = changelog]
           /\ \E path \in {"", "CHANGELOG.md"}, written \in BOOLEAN :
                  IF path = "" THEN Goto("AnchorCommit") /\ UNCHANGED files
                  ELSE IF written
                  THEN /\ files' = Append(files, [name |-> path, content |-> changelog])
                       /\ Goto("AnchorCommit")
                  ELSE Exit(1, "write") /\ UNCHANGED files
    /\ UNCHANGED <<conf, ci, remote, loop>>

\* AnchorOf without the check of the configured hash: the newest commit
\* stands in for a hash that is not found
AnchorOf_Fallback(commits, CommitHash) ==
    LET hits == {i \in 1..Len(commits) : commits[i].SHA = CommitHash}
    IN  IF Len(commits) = 0 THEN [SHA |-> <<>>, foundCommit |-> FALSE]
        ELSE IF hits = {} THEN [SHA |-> commits[1].SHA, foundCommit |-> TRUE]
        ELSE [SHA |-> CommitHash, foundCommit |-> TRUE]

\* the commit the release is anchored at, lines 162-172: [SHA, foundCommit]
AnchorOf(commits, CommitHash) ==
    LET hits == {i \in 1..Len(commits) : commits[i].SHA = CommitHash}
    IN  IF Len(commits) = 0 THEN [SHA |-> <<>>, foundCommit |-> FALSE]
        ELSE IF hits = {} THEN [SHA |-> commits[1].SHA, foundCommit |-> FALSE]
        ELSE [SHA |-> commits[CHOOSE i \in hits : \A j \in hits : j <= i].SHA,
              foundCommit |-> TRUE]

\* lines 162-176
AnchorCommit ==
    /\ pc = "AnchorCommit"
    /\ LET a == AnchorOf(local.commits, conf.CommitHash)
       IN  /\ local' = [local EXCEPT !.SHA = a.SHA, !.foundCommit = a.foundCommit]
           /\ IF a.foundCommit = FALSE THEN Exit(65, "Commit not found")
              ELSE Goto("CreateTagRef")
    /\ UNCHANGED <<conf, ci, remote, loop, files>>

----------------------------------------------------------------------------
(* GitHubRepository.CreateRelease, called at line 177 with branch =           *)
(* currentBranch, sha = currentSha, currentSHA = SHA and pkgName =            *)
(* conf.Pkgname. Each call of the provider is a step; an error returned is    *)
(* the error exitIfError of line 177 exits with.                              *)

Call(op, ref, sha, body, prerelease) ==
    [op |-> op, ref |-> ref, sha |-> sha, body |-> body, prerelease |-> prerelease]

\* line 309
TagName(pkgName, newVersion) == pkgName \o S_release \o <<"v">> \o VersionString(newVersion)

\* line 336
BranchName(pkgName, newVersion) == pkgName \o S_branch_v \o VersionString(newVersion)

\* the condition of line 335
CreatesBranch(branch) == branch = S_master

\* lines 309-322
CreateTagRef ==
    /\ pc = "CreateTagRef"
    /\ \E ok \in BOOLEAN :
           IF ~ok THEN Exit(1, "provider") /\ UNCHANGED remote
           ELSE /\ remote' = [remote EXCEPT !.calls = Append(@,
                       Call("CreateRef",
                            S_refs_tags \o TagName(conf.Pkgname, local.newVer.v),
                            local.SHA, <<>>, FALSE))]
                /\ Goto("CreateReleaseObject")
    /\ UNCHANGED <<conf, ci, local, loop, files>>

\* lines 324-334: conf.Prerelease is read here only
CreateReleaseObject ==
    /\ pc = "CreateReleaseObject"
    /\ \E ok \in BOOLEAN, prerelease \in BOOLEAN :
           IF ~ok THEN Exit(1, "provider") /\ UNCHANGED remote
           ELSE /\ remote' = [remote EXCEPT !.calls = Append(@,
                       Call("CreateRelease", TagName(conf.Pkgname, local.newVer.v),
                            local.SHA, local.changelog,
                            prerelease \/ Prerelease(local.newVer.v) # <<>>))]
                /\ IF CreatesBranch(local.currentBranch) THEN Goto("CreateBranchRef")
                   ELSE Goto("Ghr")
    /\ UNCHANGED <<conf, ci, local, loop, files>>

\* lines 335-349
CreateBranchRef ==
    /\ pc = "CreateBranchRef"
    /\ \E ok \in BOOLEAN :
           IF ~ok THEN Exit(1, "provider") /\ UNCHANGED remote
           ELSE /\ remote' = [remote EXCEPT !.calls = Append(@,
                       Call("CreateRef",
                            S_refs_heads \o BranchName(conf.Pkgname, local.newVer.v),
                            local.SHA, <<>>, FALSE))]
                /\ Goto("Ghr")
    /\ UNCHANGED <<conf, ci, local, loop, files>>

\* a file written after the release when its flag asks for it: the flag is
\* read at this step only
WriteIfAsked(label, name, content, next) ==
    /\ pc = label
    /\ \E asked \in BOOLEAN, written \in BOOLEAN :
           IF ~asked THEN Goto(next) /\ UNCHANGED files
           ELSE IF written
           THEN files' = Append(files, [name |-> name, content |-> content]) /\ Goto(next)
           ELSE Exit(1, "write") /\ UNCHANGED files
    /\ UNCHANGED <<conf, ci, remote, local, loop>>

\* lines 179-181
Ghr == WriteIfAsked("Ghr", ".ghr", <<"v">> \o VersionString(local.newVer.v), "Vf")

\* lines 183-185
Vf == WriteIfAsked("Vf", ".version", VersionString(local.newVer.v), "Update")

\* lines 187-192: update.Apply rewrites the file conf.Update names, then
\* cliHandler returns nil
Update ==
    /\ pc = "Update"
    /\ \E asked \in BOOLEAN, applied \in BOOLEAN :
           IF asked /\ ~applied THEN Exit(1, "update") ELSE Goto("done")
    /\ UNCHANGED <<conf, ci, remote, local, loop, files>>

Next ==
    \/ NewConfig
    \/ NewRepository
    \/ GetInfo
    \/ ResolveBranch
    \/ RunCondition
    \/ GetLatestReleaseStart
    \/ ListRefs
    \/ Rank
    \/ GetCommitsStep
    \/ CalculateVersion
    \/ Changelog
    \/ AnchorCommit
    \/ CreateTagRef
    \/ CreateReleaseObject
    \/ CreateBranchRef
    \/ Ghr
    \/ Vf
    \/ Update

Spec == Init /\ [][Next]_vars

----------------------------------------------------------------------------
(* The classifier on its own: GetCommits on a history of one commit, over   *)
(* the messages below and every package scope.                              *)

ClassifyMessages ==
    {type \o scope \o bang \o sep \o subject \o body :
        type \in {S_feat, <<"F", "i", "x">>, S_chore, <<>>, <<"a", " ", "b">>},
        scope \in {<<>>, <<"(">> \o S_pkgA \o <<")">>, <<"(">> \o S_pkgB \o <<")">>,
                   <<"(", ")">>, <<"(">> \o S_pkgA},
        bang \in {<<>>, <<"!">>},
        sep \in {<<":", " ">>, <<":">>},
        subject \in {<<"x">>, S_BREAKING},
        body \in {<<>>, <<"\n", "\n">> \o S_BREAKING \o <<":", " ", "y">>, <<"\n", "z">>}}

\* a run that has come to line 135 on the default branch
AtGetCommits(pkg, history) ==
    /\ pc = "GetCommits"
    /\ conf = [CurrentBranch |-> <<>>, BaseBranch |-> S_master, MaintainedVersion |-> <<>>,
               Pkgname |-> pkg, CommitHash |-> <<>>]
    /\ ci = [branch |-> S_master, sha |-> Sha("c", 1)]
    /\ remote = Remote(S_master, <<>>, history)
    /\ local = [Local0 EXCEPT !.defaultBranch = S_master, !.currentBranch = S_master,
                              !.currentSha = Sha("c", 1)]
    /\ loop = [Loop0 EXCEPT !.returned = TRUE]
    /\ files = <<>>
    /\ exit = [code |-> 0, err |-> ""]

InitClassify ==
    \E pkg \in {<<>>, S_pkgA, S_pkgB}, m \in ClassifyMessages :
        AtGetCommits(pkg, History(<<m>>))

SpecClassify == InitClassify /\ [][GetCommitsStep]_vars

(* GetCommits on histories longer than a page. *)

InitCommits ==
    \E n \in 0..MaxHistory :
        AtGetCommits(S_pkgA,
            History([i \in 1..n |-> IF i % 2 = 0 THEN Subject(S_feat, S_pkgA, <<"y">>)
                                    ELSE Subject(S_chore, S_pkgA, <<"x">>)]))

SpecCommits == InitCommits /\ [][GetCommitsStep]_vars

(* GetLatestRelease on its own, over every sequence of at most MaxPages     *)
(* pages of PagePool.                                                       *)

InitTags ==
    /\ pc = "GetLatestRelease"
    /\ conf \in {c \in Confs : c.CommitHash = <<>>}
    /\ ci = [branch |-> S_master, sha |-> Sha("c", 1)]
    /\ \E t \in SeqsUpTo(PagePool, MaxPages) : remote = Remote(S_main, t, <<>>)
    /\ local = [Local0 EXCEPT
           !.defaultBranch = IF conf.MaintainedVersion # <<>> THEN S_star ELSE S_main,
           !.currentBranch = IF conf.CurrentBranch # <<>> THEN conf.CurrentBranch
                             ELSE ci.branch,
           !.currentSha = IF conf.CurrentBranch # <<>> THEN conf.CurrentBranch
                          ELSE ci.sha]
    /\ loop = Loop0
    /\ files = <<>>
    /\ exit = [code |-> 0, err |-> ""]

NextTags ==
    \/ GetLatestReleaseStart
    \/ ListRefs
    \/ Rank

SpecTags == InitTags /\ [][NextTags]_vars

----------------------------------------------------------------------------
(* What the claims speak of. *)

Shas(commits) == {commits[i].SHA : i \in 1..Len(commits)}

Calls(op) == {i \in 1..Len(remote.calls) : remote.calls[i].op = op}

TagRefCreated ==
    \E i \in Calls("CreateRef") : HasPrefix(remote.calls[i].ref, S_refs_tags)

BranchRefCreated ==
    \E i \in Calls("CreateRef") : HasPrefix(remote.calls[i].ref, S_refs_heads)

ReleaseCreated == Calls("CreateRelease") # {}

ChangelogWritten == \E i \in 1..Len(files) : files[i].name = "CHANGELOG.md"

\* CreateRelease has returned nil
AfterCreateRelease == pc \in {"Ghr", "Vf", "Update", "done"}

\* the first line of the message of commit i of the history
SubjectLine(i) == Split(remote.history[i].Message, "\n")[1]

\* no fetched commit qualifies for a bump
NoBump == GetNewVersion(conf, local.commits, local.release) = Nil

----------------------------------------------------------------------------
(* C1: a run that ends through an error exit has written no changelog file, *)
(* created no tag reference and created no release object.                  *)
C1_NoSideEffectOnErrorExit ==
    pc = "exit" => ~ChangelogWritten /\ ~TagRefCreated /\ ~ReleaseCreated

(* C2: the step of the commit-anchor lookup goes on to CreateRelease with   *)
(* releaseSHA equal to the configured commit hash when a fetched commit has *)
(* that SHA, and exits with "Commit not found", no provider write made,     *)
(* when none has; every write of CreateRelease carries the configured hash. *)
C2_CommitAnchor ==
    [][/\ pc = "AnchorCommit" /\ conf.CommitHash \in Shas(local.commits)
            => pc' = "CreateTagRef" /\ local'.SHA = conf.CommitHash
       /\ pc = "AnchorCommit" /\ conf.CommitHash \notin Shas(local.commits)
            => /\ pc' = "exit"
               /\ exit' = [code |-> 65, err |-> "Commit not found"]
               /\ remote'.calls = <<>>
       /\ remote'.calls # remote.calls
            => /\ remote'.calls[Len(remote'.calls)].sha = conf.CommitHash
               /\ conf.CommitHash \in Shas(local.commits)]_vars

\* the release is being created at the configured commit, which is not the
\* newest of the fetched commits
C2_Witness ==
    /\ pc = "CreateReleaseObject"
    /\ Len(local.commits) = 2
    /\ conf.CommitHash = local.commits[2].SHA
    /\ remote.calls[1].sha = conf.CommitHash

(* C3: when no commit qualifies for a bump, the new version is the previous *)
(* version with the minor incremented if the run's current branch is the    *)
(* default/base branch, and with the patch incremented if it is another     *)
(* branch. Stated where the configured base branch and the provider's       *)
(* default branch agree on which of the two the current branch is.          *)
C3_FallbackBump ==
    (pc \in {"Changelog", "AnchorCommit"} /\ NoBump) =>
        /\ (local.currentBranch = conf.BaseBranch
                /\ local.currentBranch = remote.defaultBranch)
             => local.newVer = Some(IncMinor(local.release.Version))
        /\ (local.currentBranch # conf.BaseBranch
                /\ local.currentBranch # remote.defaultBranch)
             => local.newVer = Some(IncPatch(local.release.Version))

(* C4: every commit whose full message holds a breaking-change marker is    *)
(* classified with Change.Major = TRUE, whatever its type, its subject line *)
(* and the package scope.                                                   *)
C4_Original ==
    pc = "CalculateVersion" =>
        \A i \in 1..Len(local.commits) :
            breakingPattern(remote.history[i].Message) => local.commits[i].Change.Major

(* C4, amended: every commit whose subject line matches the commit pattern  *)
(* with a scope equal to the non-empty configured package scope, and whose  *)
(* full message holds a breaking-change marker, is classified with          *)
(* Change.Major = TRUE, whatever its type.                                  *)
C4_Amended ==
    pc = "CalculateVersion" =>
        \A i \in 1..Len(local.commits) :
            (/\ commitPattern(SubjectLine(i)).found
             /\ conf.Pkgname # <<>>
             /\ commitPattern(SubjectLine(i)).scope = conf.Pkgname
             /\ breakingPattern(remote.history[i].Message))
            => local.commits[i].Change.Major

\* a chore commit of the package whose marker is in the body only
C4_Witness ==
    /\ pc = "CalculateVersion"
    /\ Len(local.commits) = 1
    /\ local.commits[1].Type = S_chore
    /\ local.commits[1].Scope = conf.Pkgname
    /\ ~breakingPattern(SubjectLine(1))
    /\ Len(local.commits[1].Raw) = 3
    /\ local.commits[1].Change.Major

C6_CreateReleaseOrder ==
    LET n == Len(remote.calls)
        v == local.newVer.v
    IN  /\ n <= 3
        /\ n >= 1 => remote.calls[1] =
               Call("CreateRef", S_refs_tags \o TagName(conf.Pkgname, v), local.SHA,
                    <<>>, FALSE)
        /\ n >= 2 => /\ remote.calls[2].op = "CreateRelease"
                     /\ remote.calls[2].ref = TagName(conf.Pkgname, v)
        /\ n >= 3 => /\ remote.calls[3] =
                          Call("CreateRef", S_refs_heads \o BranchName(conf.Pkgname, v),
                               local.SHA, <<>>, FALSE)
                     /\ local.currentBranch = remote.defaultBranch
        /\ AfterCreateRelease =>
               /\ n >= 2
               /\ (n = 3) <=> (local.currentBranch = remote.defaultBranch)

(* C7: the ranking of GetLatestRelease runs only after every page of tags   *)
(* has been fetched, over the surviving refs of all pages; a release        *)
(* returned without ranking is the zero Release of a repository without     *)
(* tags; an error on a page returns no release.                             *)
C7_AllPagesBeforeRanking ==
    /\ (pc = "Rank" \/ loop.ranked) =>
           /\ loop.fetched = Len(remote.tagPages)
           /\ loop.allReleases =
                  PageReleases(Concat(remote.tagPages), local.matchRegex, conf.Pkgname)
    /\ (loop.returned /\ ~loop.ranked) =>
           remote.tagPages = <<>> /\ local.release = ZeroRelease
    /\ loop.failed =>
           /\ ~loop.returned /\ ~loop.ranked
           /\ local.release = Local0.release
           /\ pc = "exit" /\ exit.err = "provider"

\* the latest release found stands on the second of two pages
C7_Witness ==
    /\ loop.ranked
    /\ Len(remote.tagPages) = 2
    /\ remote.tagPages[1] = <<R_101>>
    /\ local.release = Release(R_120.SHA, Version(1, 2, 0, <<>>))

(* C8: the commits GetCommits returns are the whole history reachable from  *)
(* the current SHA, never a strict prefix of it.                            *)
C8_WholeHistory ==
    pc = "CalculateVersion" =>
        /\ Len(local.commits) = Len(remote.history)
        /\ \A i \in 1..Len(remote.history) : local.commits[i].SHA = remote.history[i].SHA

(* C9: when the maintained version asks for a pre-release and the release   *)
(* GetLatestRelease returned has none, the run has exited with "no          *)
(* pre-release for this version possible": no commit was fetched, no        *)
(* version computed, no file written and no provider write made.            *)
C9_InvalidMaintenanceFailsFast ==
    (/\ Contains(conf.MaintainedVersion, <<"-">>)
     /\ loop.returned
     /\ Prerelease(local.release.Version) = <<>>)
    => /\ pc = "exit"
       /\ exit = [code |-> 1, err |-> "no pre-release for this version possible"]
       /\ local.commits = <<>>
       /\ local.newVer = Nil
       /\ files = <<>>
       /\ remote.calls = <<>>

\* the ranking found no pre-release on the maintained line of a repository
\* that has tags
C9_Witness ==
    /\ Contains(conf.MaintainedVersion, <<"-">>)
    /\ loop.ranked
    /\ remote.tagPages # <<>>
    /\ local.release = ZeroRelease
    /\ pc = "exit"

(* C10: a run that is not dry, in which every provider call and every file  *)
(* write succeeds and every check before the version is computed passes,    *)
(* and in which no commit qualifies for a bump, has invoked CreateRelease   *)
(* with the fallback version when it ends.                                  *)
C10_BranchesAlwaysAdvance ==
    (/\ pc \in {"exit", "done"}
     /\ exit.err \in {"", "Commit not found"}
     /\ NoBump)
    => \E i \in Calls("CreateRelease") :
           remote.calls[i].ref = TagName(conf.Pkgname, local.newVer.v)

====
